---- MODULE Spec2Model ----
(***************************************************************************)
(* Model of app.py, the Streamlit application "Analyse de l'accessibilite  *)
(* des loyers a Paris".  One run of the script is one action: load_data    *)
(* (cached after the first run), the sidebar criteria, the filtering and   *)
(* estimation, the aggregation per quartier and the Folium rendering loop. *)
(*                                                                         *)
(* A rent per m2 is a double: the text "32,2" becomes the double nearest   *)
(* to 32.2, held here as its number of tenths, 322.  An estimated rent is  *)
(* the double rent * surface: it is held as the exact product in tenths    *)
(* together with the sign of what the two roundings (of the rent and of    *)
(* the product) add to it, so that 32.2 * 30 is 966.0000000000001 and not  *)
(* 966.  Budgets and surfaces are the ints of the number inputs.           *)
(***************************************************************************)
EXTENDS Integers, Sequences, FiniteSets, TLC

VARIABLES
    ran,             \* FALSE before the first run of the script
    fetch,           \* outcome of the requests.get of the first run
    raw,             \* the response body of the first run
    cache,           \* the entry st.cache_data holds for load_data()
    data,            \* what load_data() returned to the last run (rows of the DataFrame)
    crit,            \* the values of the sidebar widgets
    signals,         \* st.warning / st.error messages shown, in order
    quartiers_info,  \* the dict built by the aggregation, in insertion order
    rendered,        \* the polygons added to the Folium map, in order
    crashed,         \* the exception that ended the run, or "none"
    mapShown         \* st_folium was called

vars == <<ran, fetch, raw, cache, data, crit, signals, quartiers_info, rendered, crashed, mapShown>>

-----------------------------------------------------------------------------
(* Bounds of the model.                                                    *)

\* Longest payload of rent rows (rows differing in quartier, rooms, era, type, rents).
MaxRows == 2
\* Longest payload of rows differing in their geo_shape.
MaxGeoRows == 2
\* Longest payload of rows differing in year and in the cleanliness of their fields.
MaxLoadRows == 2

-----------------------------------------------------------------------------
(* Program constants.                                                      *)

TargetYear == 2025
DefaultBudget == 1500
DefaultSurface == 30

\* The three options of the selectbox "Type de loyer a considerer", in order.
loyer_options == <<"Loyers de référence majorés", "Loyers de référence", "Loyers de référence minorés">>

\* sorted() over the category values the model uses.
TypeOrder == <<"meublé", "non meublé">>
EpoqueOrder == <<"1946-1970", "Avant 1946">>
NameOrder == <<"Amérique", "Belleville">>

\* Values the number inputs are moved to, besides their defaults.
BudgetChoices == {966, DefaultBudget}
SurfaceChoices == {DefaultSurface, 40}

-----------------------------------------------------------------------------
(* JSON values as json.loads returns them.                                 *)

JNull == [t |-> "null", n |-> 0, items |-> <<>>]
JNum(k) == [t |-> "num", n |-> k, items |-> <<>>]
\* A str of k characters none of which is part of a number ("ab"); "" for k = 0.
JStr(k) == [t |-> "str", n |-> k, items |-> <<>>]
\* A str of k >= 1 decimal digits ("5", "48").
JDigits(k) == [t |-> "digits", n |-> k, items |-> <<>>]
\* A str of k >= 3 characters that spells a decimal number, the point second ("1.5").
JDecimal(k) == [t |-> "decimal", n |-> k, items |-> <<>>]

\* isinstance(v, str)
IsStr(v) == v.t \in {"str", "digits", "decimal"}

\* The character i (from 1) of the str v, a str of length one.
CharAt(v, i) ==
    CASE v.t = "digits" -> JDigits(1)
      [] v.t = "decimal" -> IF i = 2 THEN JStr(1) ELSE JDigits(1)
      [] OTHER -> JStr(1)

\* The empty dict {}.
JMap == [t |-> "map", n |-> 0, items |-> <<>>]
JList(s) == [t |-> "list", n |-> 0, items |-> s]

Pt(lon, lat) == JList(<<JNum(lon), JNum(lat)>>)

\* Python results: a value, or the exception raised.
Ok(v) == [exc |-> "none", val |-> v]
Raise(e) == [exc |-> e, val |-> JNull]

\* v[i] for a non-negative i.
PyIndex(v, i) ==
    CASE v.t = "list" -> IF i + 1 <= Len(v.items) THEN Ok(v.items[i + 1]) ELSE Raise("IndexError")
      [] IsStr(v) -> IF i + 1 <= v.n THEN Ok(CharAt(v, i + 1)) ELSE Raise("IndexError")
      [] v.t = "map" -> Raise("KeyError")
      [] OTHER -> Raise("TypeError")

\* iter(v): the sequence a for loop goes through.
PyIter(v) ==
    CASE v.t = "list" -> [exc |-> "none", val |-> v.items]
      [] IsStr(v) -> [exc |-> "none", val |-> [k \in 1..v.n |-> CharAt(v, k)]]
      [] v.t = "map" -> [exc |-> "none", val |-> <<>>]
      [] OTHER -> [exc |-> "TypeError", val |-> <<>>]

-----------------------------------------------------------------------------
(* The text of a rent field of the CSV.                                    *)

Comma(w, d) == [form |-> "comma", whole |-> w, tenth |-> d]   \* "w,d"
Dot(w, d) == [form |-> "dot", whole |-> w, tenth |-> d]       \* "w.d"
Whole(w) == [form |-> "whole", whole |-> w, tenth |-> 0]      \* "w"
EmptyField == [form |-> "empty", whole |-> 0, tenth |-> 0]    \* "", read as NaN
Garbage == [form |-> "garbage", whole |-> 0, tenth |-> 0]     \* "n.c."

\* .astype(str).str.replace(',', '.')
str_replace(x) == IF x.form = "comma" THEN [x EXCEPT !.form = "dot"] ELSE x

\* pd.to_numeric(..., errors='coerce'): the double nearest to v / 10.
to_numeric(x) ==
    CASE x.form = "dot" -> [nan |-> FALSE, v |-> x.whole * 10 + x.tenth]
      [] x.form = "whole" -> [nan |-> FALSE, v |-> x.whole * 10]
      [] OTHER -> [nan |-> TRUE, v |-> 0]

-----------------------------------------------------------------------------
(* The text of a geo_shape field of the CSV.                               *)

GeoMissing == [form |-> "empty", coordinates |-> JNull]       \* "", read as NaN
GeoInvalid == [form |-> "invalid", coordinates |-> JNull]     \* not JSON
GeoArray == [form |-> "array", coordinates |-> JNull]         \* JSON, but a list
GeoNoKey == [form |-> "nokey", coordinates |-> JNull]         \* an object without "coordinates"
Geo(c) == [form |-> "object", coordinates |-> c]              \* {"type": ..., "coordinates": c}

Ring1 == JList(<<Pt(2, 48), Pt(3, 48), Pt(3, 49)>>)
Ring2 == JList(<<Pt(4, 50), Pt(5, 50), Pt(5, 51)>>)
Polygon1 == JList(<<Ring1>>)
Polygon2 == JList(<<Ring2, Ring1>>)
MultiPolygon1 == JList(<<Polygon1>>)
MultiPolygon2 == JList(<<Polygon2, Polygon1>>)

\* safe_json_load: the coordinates, or None (JNull).
safe_json_load(x) ==
    CASE x.form = "invalid" -> JNull      \* json.JSONDecodeError
      [] x.form = "array" -> JNull        \* TypeError: list indices must be integers
      [] x.form = "nokey" -> JNull        \* KeyError
      [] x.form = "empty" -> JNull        \* TypeError: json.loads(nan)
      [] OTHER -> x.coordinates

-----------------------------------------------------------------------------
(* Rows of the CSV and the payloads the fetch may return.                  *)

Row(year, nom, nb, ep, ty, maj, ref, min, geo) ==
    [annee |-> year, nom_quartier |-> nom, nb_pieces |-> nb,
     epoque_construction |-> ep, type_location |-> ty,
     loyer_majore |-> maj, loyer_ref |-> ref, loyer_minore |-> min, geo_shape |-> geo]

\* (era, type, capped, reference, floor) combinations of the rent rows.
Tariffs ==
    { <<"Avant 1946", "meublé", Comma(50, 0), Comma(41, 5), Comma(32, 2)>>,
      <<"1946-1970", "meublé", Comma(33, 5), Comma(41, 5), Comma(19, 5)>>,
      <<"Avant 1946", "non meublé", Comma(25, 0), Comma(20, 5), Comma(19, 5)>> }

RentRows ==
    { Row(TargetYear, k[1], k[2], f[1], f[2], f[3], f[4], f[5], Geo(Polygon1)) :
        k \in {<<"Amérique", 1>>, <<"Amérique", 2>>, <<"Belleville", 1>>}, f \in Tariffs }

GeoRow(nom, geo) ==
    Row(TargetYear, nom, 1, "Avant 1946", "meublé", Comma(50, 0), Comma(41, 5), Comma(29, 0), geo)

GeoShapes ==
    { Geo(Polygon1), Geo(Polygon2), Geo(MultiPolygon1), Geo(MultiPolygon2),
      GeoInvalid, GeoArray, GeoNoKey,
      Geo(JNull), Geo(JMap), Geo(JNum(5)), Geo(JStr(2)),
      Geo(JList(<<>>)), Geo(JList(<<JList(<<>>)>>)),
      Geo(Ring1), Geo(JList(<<JList(<<JList(<<JNum(2)>>)>>)>>)),
      Geo(JList(<<JList(<<JList(<<JDigits(1), JDigits(2)>>)>>)>>)) }

GeoRows ==
    { GeoRow("Amérique", g) : g \in GeoShapes } \cup { GeoRow("Belleville", Geo(Polygon1)) }

LoadRows ==
    { GeoRow("Amérique", Geo(Polygon1)),
      [GeoRow("Amérique", Geo(Polygon1)) EXCEPT !.annee = 2024],
      [GeoRow("Belleville", Geo(Polygon1)) EXCEPT !.annee = 2024],
      [GeoRow("Belleville", Geo(Polygon1)) EXCEPT !.loyer_majore = Dot(33, 5), !.loyer_ref = Whole(28)],
      [GeoRow("Amérique", Geo(Polygon1)) EXCEPT !.loyer_ref = Garbage],
      [GeoRow("Amérique", Geo(Polygon1)) EXCEPT !.loyer_minore = EmptyField],
      [GeoRow("Amérique", Geo(Polygon1)) EXCEPT !.nom_quartier = ""],
      GeoRow("Belleville", GeoMissing) }

SeqsUpTo(S, n) == UNION { [1..k -> S] : k \in 0..n }

Csv(rows) == [kind |-> "csv", rows |-> rows]
\* A response without content: pd.read_csv raises EmptyDataError.
EmptyPayload == [kind |-> "empty", rows |-> <<>>]
\* A body that is no CSV with the expected header: df['annee'] raises KeyError.
UnrecognizedPayload == [kind |-> "unrecognized", rows |-> <<>>]

Payloads ==
    {EmptyPayload, UnrecognizedPayload}
    \cup { Csv(r) : r \in SeqsUpTo(RentRows, MaxRows) }
    \cup { Csv(r) : r \in SeqsUpTo(GeoRows, MaxGeoRows) }
    \cup { Csv(r) : r \in SeqsUpTo(LoadRows, MaxLoadRows) }

-----------------------------------------------------------------------------
(* load_data                                                               *)

\* The DataFrame read from the CSV: each row with its index label.
read_csv(rows) == [i \in 1..Len(rows) |-> [idx |-> i, geo_points |-> JNull] @@ rows[i]]

\* df = df[df['annee'] == 2025].copy()
FilterYear(df) == LET Keep(r) == r.annee = TargetYear IN SelectSeq(df, Keep)

\* The three rent columns converted with pd.to_numeric.
ConvertLoyers(df) ==
    [i \in 1..Len(df) |->
        [df[i] EXCEPT !.loyer_ref = to_numeric(str_replace(@)),
                      !.loyer_majore = to_numeric(str_replace(@)),
                      !.loyer_minore = to_numeric(str_replace(@))]]

\* df.dropna(subset=cols_loyer + ['geo_shape', 'nom_quartier']), rents then kept as numbers.
DropnaRequired(df) ==
    LET Keep(r) == /\ ~r.loyer_ref.nan /\ ~r.loyer_majore.nan /\ ~r.loyer_minore.nan
                   /\ r.geo_shape.form # "empty"
                   /\ r.nom_quartier # ""
        kept == SelectSeq(df, Keep)
    IN  [i \in 1..Len(kept) |->
            [kept[i] EXCEPT !.loyer_ref = @.v, !.loyer_majore = @.v, !.loyer_minore = @.v]]

\* df['geo_points'] = df['geo_shape'].apply(safe_json_load)
ApplyGeoPoints(df) ==
    [i \in 1..Len(df) |-> [df[i] EXCEPT !.geo_points = safe_json_load(df[i].geo_shape)]]

\* Mutant: the rows without geo_points are kept.
DropnaGeoPoints_Keep(df) == df

\* df.dropna(subset=['geo_points'])
DropnaGeoPoints(df) == LET Keep(r) == r.geo_points # JNull IN SelectSeq(df, Keep)

\* Mutant: the status of the response is not looked at.
raise_for_status_Never(outcome) == FALSE

\* response.raise_for_status()
raise_for_status(outcome) == outcome = "http_error"

MsgFetchError == "error: Erreur lors du chargement des données"
MsgUnexpected == "error: Une erreur inattendue est survenue"
MsgNoYear == "warning: Aucune donnée n'a été trouvée pour l'année 2025"
MsgNoData == "error: Les données n'ont pas pu être chargées ou aucune donnée n'est disponible pour 2025"
MsgNoMatch == "warning: Aucun logement ne correspond à vos critères de sélection"

\* The return value of load_data and the messages it shows.
load_data(outcome, body) ==
    IF outcome = "transport_error" \/ raise_for_status(outcome)
    THEN [df |-> <<>>, msgs |-> <<MsgFetchError>>]
    ELSE IF body.kind # "csv"
    THEN [df |-> <<>>, msgs |-> <<MsgUnexpected>>]
    ELSE LET df == FilterYear(read_csv(body.rows))
         IN  IF df = <<>>
             THEN [df |-> <<>>, msgs |-> <<MsgNoYear>>]
             ELSE [df |-> DropnaGeoPoints(ApplyGeoPoints(DropnaRequired(ConvertLoyers(df)))),
                   msgs |-> <<>>]

\* The cache before the first call.
CacheMiss == [hit |-> FALSE, df |-> <<>>, msgs |-> <<>>]

\* Mutant: load_data without its decorator; every run fetches again.
cached_load_data_NoCache(entry, outcome, body) == [hit |-> TRUE] @@ load_data(outcome, body)

\* @st.cache_data: load_data() runs on a miss and its result and messages are
\* stored; on a hit a copy of the stored result is returned and the messages are
\* replayed, whatever the source would answer now (outcome, body).
cached_load_data(entry, outcome, body) ==
    IF entry.hit THEN entry ELSE [hit |-> TRUE] @@ load_data(outcome, body)

-----------------------------------------------------------------------------
(* The sidebar.                                                            *)

\* sorted(data[col].unique()): the values of Order that occur in the column.
SortedUnique(order, present) == LET Keep(x) == x \in present IN SelectSeq(order, Keep)

type_options(d) == SortedUnique(TypeOrder, {d[i].type_location : i \in 1..Len(d)})
epoques_options(d) == SortedUnique(EpoqueOrder, {d[i].epoque_construction : i \in 1..Len(d)})

Range(s) == {s[i] : i \in 1..Len(s)}

\* The widgets' values on the first run: value=1500, value=30, index=0, default=all, index=0.
DefaultCriteria(d) ==
    [budget |-> DefaultBudget, surface |-> DefaultSurface,
     type_loc |-> type_options(d)[1],
     epoque_selection |-> Range(epoques_options(d)),
     loyer_a_utiliser |-> loyer_options[1]]

NoCriteria ==
    [budget |-> DefaultBudget, surface |-> DefaultSurface, type_loc |-> "",
     epoque_selection |-> {}, loyer_a_utiliser |-> loyer_options[1]]

\* Mutant: the reference option reads the capped column.
col_loyer_map_Swapped(option) ==
    CASE option = "Loyers de référence majorés" -> "loyer_majore"
      [] option = "Loyers de référence" -> "loyer_majore"
      [] option = "Loyers de référence minorés" -> "loyer_minore"

\* col_loyer_map[loyer_a_utiliser]
col_loyer_map(option) ==
    CASE option = "Loyers de référence majorés" -> "loyer_majore"
      [] option = "Loyers de référence" -> "loyer_ref"
      [] option = "Loyers de référence minorés" -> "loyer_minore"

\* row[col]
Column(row, col) ==
    CASE col = "loyer_majore" -> row.loyer_majore
      [] col = "loyer_ref" -> row.loyer_ref
      [] col = "loyer_minore" -> row.loyer_minore

-----------------------------------------------------------------------------
(* Double arithmetic.  A rent of t tenths is the double x = M * 2^-k       *)
(* nearest to t / 10, with 2^52 <= M < 2^53.  Everything below is computed *)
(* on small integers: 5 * M - t * 2^(k-1) = rho is in -2..2, M modulo 2048 *)
(* is rho * 1229 (1229 is the inverse of 5), and the product x * s is      *)
(* rounded to a multiple of U = 2^(E - e) units of 2^-k, where e and E are *)
(* the binades of x and of x * s.                                          *)

RECURSIVE Pow2(_)
Pow2(n) == IF n = 0 THEN 1 ELSE 2 * Pow2(n - 1)

\* The e with 2^e <= m < 2^(e+1), for an integer m >= 1.
RECURSIVE Log2Floor(_)
Log2Floor(m) == IF m < 2 THEN 0 ELSE 1 + Log2Floor(m \div 2)

\* The e with 2^e <= n / 10 < 2^(e+1), for n > 0.
Binade10(n) ==
    IF n >= 10 THEN Log2Floor(n \div 10)
    ELSE IF n >= 5 THEN 0 - 1
    ELSE IF n >= 3 THEN 0 - 2
    ELSE IF n = 2 THEN 0 - 3
    ELSE 0 - 4

\* Five times the rounding error of the double nearest to t / 10, in units of 2^-k.
Rho(t) ==
    LET k == 52 - Binade10(t)
        pow == <<1, 2, 4, 3>>[((k - 1) % 4) + 1]
        r == ((t % 5) * pow) % 5
    IN  IF r <= 2 THEN 0 - r ELSE 5 - r

\* The distance from sm to the multiple of U it rounds to, ties to the even multiple.
RoundAdjust(sm, U) ==
    LET q == sm % U
    IN  IF 2 * q < U THEN 0 - q
        ELSE IF 2 * q > U THEN U - q
        ELSE IF sm >= U THEN U - q ELSE 0 - q

\* The binade of the product x * s: that of t * s / 10, one less when the exact
\* product is a power of two and x lies below t / 10.
ProductBinade(t, s, rho) ==
    LET E0 == Binade10(t * s)
    IN  IF t * s = 10 * Pow2(E0) /\ rho < 0 THEN E0 - 1 ELSE E0

\* The sign of five times the error of the rounded product, in units of 2^-k.
ExcessSign(s, rho, U) ==
    LET v == 5 * RoundAdjust((s * ((rho * 1229 + 4096) % 2048)) % (2 * U), U) + s * rho
    IN  IF v > 0 THEN 1 ELSE IF v < 0 THEN 0 - 1 ELSE 0

\* FloatExcess for a rent whose rounding error is rho.
ExcessFor(t, s, rho) == ExcessSign(s, rho, Pow2(ProductBinade(t, s, rho) - Binade10(t)))

\* The sign of (x * s as a double) - t * s / 10, for the double x nearest to t / 10.
FloatExcess(t, s) == IF t = 0 \/ s = 0 THEN 0 ELSE ExcessFor(t, s, Rho(t))

\* x * s for the double x nearest to t / 10 and the int s.
FloatMul(t, s) == [tenths |-> t * s, excess |-> FloatExcess(t, s)]

\* a <= b for two doubles.
FloatLeq(a, b) == a.tenths < b.tenths \/ (a.tenths = b.tenths /\ a.excess <= b.excess)

\* a <= n for a double a and an int n.
FloatLeqInt(a, n) == a.tenths < n * 10 \/ (a.tenths = n * 10 /\ a.excess <= 0)

-----------------------------------------------------------------------------
(* Filtering and estimation.                                               *)

\* Mutant: | in place of &.
df_filtered_Or(d, c) ==
    LET Keep(r) == r.type_location = c.type_loc \/ r.epoque_construction \in c.epoque_selection
    IN  SelectSeq(d, Keep)

\* data[(data['type_location'] == type_loc) & (data['epoque_construction'].isin(epoque_selection))]
df_filtered(d, c) ==
    LET Keep(r) == r.type_location = c.type_loc /\ r.epoque_construction \in c.epoque_selection
    IN  SelectSeq(d, Keep)

\* df_filtered[col_loyer_selection] * surface
loyer_estime(row, c) == FloatMul(Column(row, col_loyer_map(c.loyer_a_utiliser)), c.surface)

\* df_filtered['loyer_estime'] <= budget
dans_le_budget(estime, c) == FloatLeqInt(estime, c.budget)

\* The two columns added to df_filtered.
WithEstimate(row, estime, c) ==
    [loyer_estime |-> estime, dans_le_budget |-> dans_le_budget(estime, c)] @@ row

Estimate(df, c) == [i \in 1..Len(df) |-> WithEstimate(df[i], loyer_estime(df[i], c), c)]

-----------------------------------------------------------------------------
(* Aggregation per quartier.                                               *)

\* Mutant: sort_values(['loyer_estime']).
SortKeyLeq_EstimeOnly(a, b) == FloatLeq(a.loyer_estime, b.loyer_estime)

\* Order of sort_values(['nb_pieces', 'loyer_estime']).
SortKeyLeq(a, b) ==
    \/ a.nb_pieces < b.nb_pieces
    \/ a.nb_pieces = b.nb_pieces /\ FloatLeq(a.loyer_estime, b.loyer_estime)

\* x inserted after the elements of the sorted s that do not come after it.
RECURSIVE InsertSorted(_, _)
InsertSorted(x, s) ==
    IF s = <<>> THEN <<x>>
    ELSE IF SortKeyLeq(Head(s), x) THEN <<Head(s)>> \o InsertSorted(x, Tail(s))
    ELSE <<x>> \o s

\* group.sort_values(['nb_pieces', 'loyer_estime']): a stable sort of the group.
RECURSIVE group_sorted(_)
group_sorted(group) ==
    IF group = <<>> THEN <<>>
    ELSE InsertSorted(group[Len(group)], group_sorted(SubSeq(group, 1, Len(group) - 1)))

\* Mutant: all() in place of any().
is_accessible_All(group) == \A i \in 1..Len(group) : group[i].dans_le_budget

\* group['dans_le_budget'].any()
is_accessible(group) == \E i \in 1..Len(group) : group[i].dans_le_budget

\* One line of the popup: what the f-string shows of the row.
LineItem(row, c) ==
    [idx |-> row.idx, nb_pieces |-> row.nb_pieces,
     epoque_construction |-> row.epoque_construction,
     loyer_m2 |-> Column(row, col_loyer_map(c.loyer_a_utiliser)),
     loyer_estime |-> row.loyer_estime,
     check_icon |-> row.dans_le_budget]

tooltip_html(group, c) ==
    LET gs == group_sorted(group) IN [i \in 1..Len(gs) |-> LineItem(gs[i], c)]

\* The rows of one quartier, in the order of the DataFrame.
Group(df, name) == LET Keep(r) == r.nom_quartier = name IN SelectSeq(df, Keep)

\* The keys of df.groupby('nom_quartier'), sorted.
GroupKeys(df) == SortedUnique(NameOrder, {df[i].nom_quartier : i \in 1..Len(df)})

\* The dict quartiers_info, as the sequence of its items.
Aggregate(df, c) ==
    LET keys == GroupKeys(df)
    IN  [k \in 1..Len(keys) |->
            LET group == Group(df, keys[k])
            IN  [name |-> keys[k],
                 accessible |-> is_accessible(group),
                 tooltip |-> tooltip_html(group, c),
                 geo_points |-> group[1].geo_points]]

-----------------------------------------------------------------------------
(* The Folium map.  The constructor folium.Polygon is library code: it    *)
(* validates its locations with folium.utilities.validate_multi_locations  *)
(* and raises TypeError or ValueError from inside the try block of the     *)
(* loop.  A library that accepted every locations value would add a        *)
(* polygon where this one raises.                                          *)

\* [[point[1], point[0]] for point in ring]
RECURSIVE InvertPoints(_)
InvertPoints(points) ==
    IF points = <<>> THEN [exc |-> "none", val |-> <<>>]
    ELSE LET p1 == PyIndex(Head(points), 1)
             p0 == PyIndex(Head(points), 0)
             rest == InvertPoints(Tail(points))
         IN  IF p1.exc # "none" THEN [exc |-> p1.exc, val |-> <<>>]
             ELSE IF p0.exc # "none" THEN [exc |-> p0.exc, val |-> <<>>]
             ELSE IF rest.exc # "none" THEN rest
             ELSE [exc |-> "none", val |-> <<JList(<<p1.val, p0.val>>)>> \o rest.val]

\* points_inverted = [[point[1], point[0]] for point in info['geo_points'][0]]
points_inverted(geo_points) ==
    LET first == PyIndex(geo_points, 0)
        it == PyIter(first.val)
    IN  IF first.exc # "none" THEN [exc |-> first.exc, val |-> <<>>]
        ELSE IF it.exc # "none" THEN [exc |-> it.exc, val |-> <<>>]
        ELSE InvertPoints(it.val)

\* len(v), for a v that has one.
PyLen(v) == IF v.t = "list" THEN Len(v.items) ELSE IF IsStr(v) THEN v.n ELSE 0

\* next(iter(v))
PyFirst(v) ==
    IF v.t \in {"num", "null"} THEN Raise("TypeError")
    ELSE IF PyLen(v) = 0 THEN Raise("StopIteration")
    ELSE PyIndex(v, 0)

\* float(v)
PyFloat(v) ==
    CASE v.t = "num" -> "none"
      [] v.t \in {"digits", "decimal"} -> "none"
      [] v.t = "str" -> "ValueError"
      [] OTHER -> "TypeError"

\* float(next(iter(v))), for the outcome l1 of evaluating v.
PyFloatOfFirst(l1) ==
    IF l1.exc # "none" THEN l1.exc
    ELSE LET l2 == PyFirst(l1.val)
         IN  IF l2.exc # "none" THEN l2.exc ELSE PyFloat(l2.val)

\* folium.utilities.validate_location: a sized value of two numbers.
validate_location(loc) ==
    IF loc.t \in {"num", "null"} THEN "TypeError"
    ELSE IF PyLen(loc) # 2 THEN "ValueError"
    ELSE IF \E i \in 0..1 : PyFloat(PyIndex(loc, i).val) # "none" THEN "ValueError"
    ELSE "none"

\* The least index of a non-empty set of indices: the element a loop reaches first.
FirstOf(bad) == CHOOSE i \in bad : \A j \in bad : i <= j

\* [validate_location(loc) for loc in s]: the exception of the first element rejected.
validate_each_location(s) ==
    LET bad == {i \in 1..Len(s) : validate_location(s[i]) # "none"}
    IN  IF bad = {} THEN "none" ELSE validate_location(s[FirstOf(bad)])

\* folium.utilities.validate_locations: a non-empty iterable of coordinate pairs.
validate_locations(locs) ==
    IF locs.t \in {"num", "null"} THEN "TypeError"
    ELSE IF PyLen(locs) = 0 THEN "ValueError"
    ELSE validate_each_location(PyIter(locs).val)

\* [validate_locations(lst) for lst in s]: the exception of the first element rejected.
validate_each_locations(s) ==
    LET bad == {i \in 1..Len(s) : validate_locations(s[i]) # "none"}
    IN  IF bad = {} THEN "none" ELSE validate_locations(s[FirstOf(bad)])

\* folium.utilities.validate_multi_locations, on the list points_inverted: pairs, or
\* lists of pairs when locations[0][0][0] converts to a float.
validate_multi_locations(locs) ==
    IF locs = <<>> THEN "ValueError"
    ELSE LET probe == PyFloatOfFirst(PyFirst(locs[1]))
         IN  IF probe = "ValueError" THEN "ValueError"
             ELSE IF probe = "none" THEN validate_each_locations(locs)
             ELSE validate_each_location(locs)

\* except (TypeError, IndexError): pass
Caught(exc) == exc \in {"TypeError", "IndexError"}

\* folium.Polygon(locations=points_inverted, ...), reached when the comprehension
\* raised nothing: the constructor validates its locations.
folium_Polygon(pts) ==
    IF pts.exc # "none" THEN pts
    ELSE [exc |-> validate_multi_locations(pts.val), val |-> pts.val]

RECURSIVE RenderLoop(_)

\* One iteration for info, whose try block ended as pts, then the iterations for rest.
LoopBody(info, pts, rest) ==
    IF pts.exc = "none"
    THEN LET after == RenderLoop(rest)
         IN  [polys |-> <<[quartier |-> info.name,
                           color |-> IF info.accessible THEN "green" ELSE "red",
                           locations |-> pts.val,
                           popup |-> info.tooltip]>> \o after.polys,
              exc |-> after.exc]
    ELSE IF Caught(pts.exc) THEN RenderLoop(rest)
    ELSE [polys |-> <<>>, exc |-> pts.exc]

\* The loop over quartiers_info.items(): the polygons added, and the exception that ended it.
RenderLoop(infos) ==
    IF infos = <<>> THEN [polys |-> <<>>, exc |-> "none"]
    ELSE LoopBody(Head(infos), folium_Polygon(points_inverted(Head(infos).geo_points)),
                  Tail(infos))

-----------------------------------------------------------------------------
(* One run of the script below load_data.                                  *)

\* What a run that stops on a warning leaves on the page.
Stopped(msgs) ==
    [signals |-> msgs, quartiers_info |-> <<>>, rendered |-> <<>>, crashed |-> "none",
     mapShown |-> FALSE]

\* The map section: st_folium shows the map when the loop raised nothing.
MapSection(loadMsgs, infos, loop) ==
    [signals |-> loadMsgs, quartiers_info |-> infos, rendered |-> loop.polys,
     crashed |-> loop.exc, mapShown |-> loop.exc = "none"]

\* The analysis of a non-empty selection f.
Analysis(loadMsgs, infos) == MapSection(loadMsgs, infos, RenderLoop(infos))

\* The branch taken when data is not empty, for the selection f.
Selected(loadMsgs, f, c) ==
    IF f = <<>> THEN Stopped(loadMsgs \o <<MsgNoMatch>>)
    ELSE Analysis(loadMsgs, Aggregate(Estimate(f, c), c))

Script(d, c, loadMsgs) ==
    IF d = <<>> THEN Stopped(loadMsgs \o <<MsgNoData>>)
    ELSE Selected(loadMsgs, df_filtered(d, c), c)

-----------------------------------------------------------------------------
(* Actions.                                                                *)

Init ==
    /\ ran = FALSE
    /\ fetch = "none"
    /\ raw = EmptyPayload
    /\ cache = CacheMiss
    /\ data = <<>>
    /\ crit = NoCriteria
    /\ signals = <<>>
    /\ quartiers_info = <<>>
    /\ rendered = <<>>
    /\ crashed = "none"
    /\ mapShown = FALSE

Show(out) ==
    /\ signals' = out.signals
    /\ quartiers_info' = out.quartiers_info
    /\ rendered' = out.rendered
    /\ crashed' = out.crashed
    /\ mapShown' = out.mapShown

\* What the source may answer to a later request: it is down, or it has new rows.
LaterResponses ==
    { <<"transport_error", EmptyPayload>>,
      <<"ok", Csv(<<GeoRow("Belleville", Geo(Polygon2))>>)>> }

\* One run of the script: data = load_data() answered entry, then the rest under
\* the criteria c.
Run(entry, c) ==
    /\ cache' = entry
    /\ data' = entry.df
    /\ crit' = c
    /\ Show(Script(entry.df, c, entry.msgs))

\* The widgets' values before any was touched.
Defaults(d) == IF d = <<>> THEN NoCriteria ELSE DefaultCriteria(d)

\* The first run: load_data fetches and parses, the widgets take their defaults.
FirstRun ==
    /\ ~ran
    /\ \E outcome \in {"ok", "http_error", "transport_error"} :
       \E body \in (IF outcome = "transport_error" THEN {EmptyPayload} ELSE Payloads) :
       \E entry \in {cached_load_data(cache, outcome, body)} :
          /\ ran' = TRUE
          /\ fetch' = outcome
          /\ raw' = body
          /\ Run(entry, Defaults(entry.df))

\* A rerun after a widget changed: load_data() is called again and answers from
\* the cache, whatever the source would answer to a new request.
Rerun(c) ==
    /\ ran
    /\ data # <<>>
    /\ c # crit
    /\ \E entry \in {cached_load_data(cache, later[1], later[2]) : later \in LaterResponses} :
          Run(entry, c)
    /\ UNCHANGED <<ran, fetch, raw>>

ChangeBudget == \E b \in BudgetChoices : Rerun([crit EXCEPT !.budget = b])

ChangeSurface == \E s \in SurfaceChoices : Rerun([crit EXCEPT !.surface = s])

ChangeTypeLoc == \E t \in Range(type_options(data)) : Rerun([crit EXCEPT !.type_loc = t])

ChangeEpoques ==
    \E e \in SUBSET Range(epoques_options(data)) : Rerun([crit EXCEPT !.epoque_selection = e])

ChangeLoyer == \E o \in Range(loyer_options) : Rerun([crit EXCEPT !.loyer_a_utiliser = o])

Next ==
    \/ FirstRun
    \/ ChangeBudget
    \/ ChangeSurface
    \/ ChangeTypeLoc
    \/ ChangeEpoques
    \/ ChangeLoyer

Spec == Init /\ [][Next]_vars

-----------------------------------------------------------------------------
(* Vocabulary of the properties, stated apart from the code's operators.   *)

\* The record matches the selected rental type and an allowed construction era.
Eligible(r, c) == r.type_location = c.type_loc /\ r.epoque_construction \in c.epoque_selection

\* The per-m2 rent the rent tier designates: capped, reference, floor.
TierRent(r, option) ==
    IF option = loyer_options[1] THEN r.loyer_majore
    ELSE IF option = loyer_options[2] THEN r.loyer_ref
    ELSE r.loyer_minore

\* The record's estimated rent, the double rent * surface, is within the budget.
Affordable(r, c) == FloatLeqInt(FloatMul(TierRent(r, c.loyer_a_utiliser), c.surface), c.budget)

\* The eligible loaded records of one quartier.
EligibleOf(name, c) ==
    {i \in 1..Len(data) : data[i].nom_quartier = name /\ Eligible(data[i], c)}

\* The loaded record with index label x.
RowOf(x) == CHOOSE r \in Range(data) : r.idx = x

Entries == Range(quartiers_info)

\* C1: a quartier of the output is flagged accessible iff one of its eligible
\* records has an estimated rent within the budget.
C1_AccessibleIffAffordable ==
    \A q \in Entries :
        q.accessible <=> \E i \in EligibleOf(q.name, crit) : Affordable(data[i], crit)

\* A quartier is accessible through one eligible record although another one is
\* over budget by the rounding of the product alone (32.2 * 30 against 966).
C1_Witness ==
    \E q \in Entries :
        /\ q.accessible
        /\ \E i \in EligibleOf(q.name, crit) :
              /\ ~Affordable(data[i], crit)
              /\ TierRent(data[i], crit.loyer_a_utiliser) * crit.surface = crit.budget * 10

\* C2: the estimated rent of every line item is the rent field the tier designates
\* times the surface (as doubles: the exact product, up to its rounding), and zeroing the two other rent fields of the record changes
\* neither the estimate nor the budget flag.
C2_EstimateFromSelectedTier ==
    \A q \in Entries : \A k \in 1..Len(q.tooltip) :
        LET li == q.tooltip[k]
            r == RowOf(li.idx)
            sel == col_loyer_map(crit.loyer_a_utiliser)
            others == [r EXCEPT !.loyer_majore = IF sel = "loyer_majore" THEN @ ELSE 0,
                                !.loyer_ref = IF sel = "loyer_ref" THEN @ ELSE 0,
                                !.loyer_minore = IF sel = "loyer_minore" THEN @ ELSE 0]
        IN  /\ li.loyer_estime = FloatMul(TierRent(r, crit.loyer_a_utiliser), crit.surface)
            /\ li.loyer_estime.tenths = TierRent(r, crit.loyer_a_utiliser) * crit.surface
            /\ li.check_icon = Affordable(r, crit)
            /\ loyer_estime(others, crit) = li.loyer_estime
            /\ dans_le_budget(loyer_estime(others, crit), crit) = li.check_icon

\* The reference tier is selected with a surface other than the default, and a line
\* item's record has three different rents.
C2_Witness ==
    /\ crit.loyer_a_utiliser = loyer_options[2]
    /\ crit.surface # DefaultSurface
    /\ \E q \in Entries : \E k \in 1..Len(q.tooltip) :
          LET r == RowOf(q.tooltip[k].idx)
          IN  Cardinality({r.loyer_majore, r.loyer_ref, r.loyer_minore}) = 3

\* C3: the line items of a quartier are in non-decreasing order of room count,
\* then of estimated rent, and are exactly its eligible records, each once.
C3_LineItemsSortedAndComplete ==
    \A q \in Entries :
        /\ \A i \in 1..Len(q.tooltip) : \A j \in 1..Len(q.tooltip) :
              i < j =>
                 \/ q.tooltip[i].nb_pieces < q.tooltip[j].nb_pieces
                 \/ /\ q.tooltip[i].nb_pieces = q.tooltip[j].nb_pieces
                    /\ FloatLeq(q.tooltip[i].loyer_estime, q.tooltip[j].loyer_estime)
        /\ {q.tooltip[i].idx : i \in 1..Len(q.tooltip)}
              = {data[i].idx : i \in EligibleOf(q.name, crit)}
        /\ Len(q.tooltip) = Cardinality(EligibleOf(q.name, crit))

\* A quartier's line items are listed in another order than its records were
\* loaded: the record with more rooms and the lower rent was loaded first.
C3_Witness ==
    \E q \in Entries :
        /\ Len(q.tooltip) = 2
        /\ q.tooltip[1].idx > q.tooltip[2].idx
        /\ q.tooltip[1].nb_pieces < q.tooltip[2].nb_pieces
        /\ ~FloatLeq(q.tooltip[1].loyer_estime, q.tooltip[2].loyer_estime)

\* The geometry field is undecodable or has no coordinates payload.
MalformedGeoShape(g) == g.form \in {"invalid", "array", "nokey"} \/ g = Geo(JNull)

\* A row of the payload that is clean but for its geometry.
CleanButGeometry(r) ==
    /\ r.annee = TargetYear
    /\ r.nom_quartier # ""
    /\ \A x \in {r.loyer_ref, r.loyer_majore, r.loyer_minore} : x.form \in {"comma", "dot", "whole"}
    /\ r.geo_shape.form # "empty"

\* The payload row i is one of the line items of its quartier.
InLineItems(i) ==
    \E q \in Entries :
        /\ q.name = raw.rows[i].nom_quartier
        /\ \E k \in 1..Len(q.tooltip) : q.tooltip[k].idx = i

\* C4 as stated: a record with a malformed geometry field that matches the criteria
\* is still one of the line items of its quartier.
C4_MalformedGeometryStillCounted ==
    (ran /\ fetch = "ok") =>
        \A i \in 1..Len(raw.rows) :
            (/\ CleanButGeometry(raw.rows[i])
             /\ MalformedGeoShape(raw.rows[i].geo_shape)
             /\ Eligible(raw.rows[i], crit)) => InLineItems(i)

\* C4 as amended: a record whose geometry field is undecodable or has no
\* coordinates payload is not loaded and is in no line item; a record whose
\* geometry decodes to a coordinates payload, of whatever shape, and that matches
\* the criteria is a line item of its quartier and counts for its accessibility.
C4_MalformedGeometryDropped ==
    (ran /\ fetch = "ok") =>
        \A i \in 1..Len(raw.rows) :
            LET r == raw.rows[i]
            IN  /\ MalformedGeoShape(r.geo_shape) =>
                      /\ \A x \in Range(data) : x.idx # i
                      /\ ~InLineItems(i)
                /\ (/\ CleanButGeometry(r)
                    /\ ~MalformedGeoShape(r.geo_shape)
                    /\ Eligible(r, crit)) =>
                      /\ InLineItems(i)
                      /\ \A q \in Entries :
                            (q.name = r.nom_quartier /\ Affordable(RowOf(i), crit)) => q.accessible

\* The payload holds a record with an undecodable geometry and a record of the same
\* quartier whose coordinates decode to a scalar; the quartier is in the output,
\* accessible, with the second record as its only line item.
C4_Witness ==
    /\ ran /\ fetch = "ok" /\ Len(raw.rows) = 2
    /\ raw.rows[1].geo_shape = GeoInvalid
    /\ raw.rows[2].geo_shape = Geo(JNum(5))
    /\ raw.rows[1].nom_quartier = raw.rows[2].nom_quartier
    /\ \E q \in Entries :
          /\ q.name = raw.rows[2].nom_quartier
          /\ q.accessible
          /\ Len(q.tooltip) = 1
          /\ q.tooltip[1].idx = 2

\* What the user is shown for a response body that was fetched without error.
SignalsFor(body) ==
    LET loaded == load_data("ok", body)
    IN  Script(loaded.df, NoCriteria, loaded.msgs).signals

\* C5 as stated: a payload with rows, none of the target year, loads nothing and is
\* reported otherwise than an empty payload and than a payload of zero data rows.
C5_NoYearDistinctFromNoData ==
    (/\ ran /\ fetch = "ok" /\ raw.kind = "csv" /\ Len(raw.rows) > 0
     /\ \A i \in 1..Len(raw.rows) : raw.rows[i].annee # TargetYear) =>
        /\ data = <<>>
        /\ signals # SignalsFor(EmptyPayload)
        /\ signals # SignalsFor(Csv(<<>>))

\* C6: a quartier of the loaded records is in the output iff one of its records is
\* eligible; no quartier of the output has empty line items or is listed twice.
C6_PresentIffEligible ==
    /\ \A i \in 1..Len(data) :
          (\E q \in Entries : q.name = data[i].nom_quartier)
             <=> EligibleOf(data[i].nom_quartier, crit) # {}
    /\ \A q \in Entries : q.tooltip # <<>> /\ \E i \in 1..Len(data) : data[i].nom_quartier = q.name
    /\ \A j \in 1..Len(quartiers_info) : \A k \in 1..Len(quartiers_info) :
          quartiers_info[j].name = quartiers_info[k].name => j = k

\* The era selection excludes every record of one loaded quartier, which is absent
\* from the output, while another quartier is present.
C6_Witness ==
    /\ Entries # {}
    /\ \E i \in 1..Len(data) :
          /\ data[i].type_location = crit.type_loc
          /\ data[i].epoque_construction \notin crit.epoque_selection
          /\ \A q \in Entries : q.name # data[i].nom_quartier

\* C7: after a failed fetch the fetch error is what is reported, nothing is loaded,
\* and no estimation, aggregation or rendering has run.
C7_FetchFailureStopsPipeline ==
    (ran /\ fetch \in {"http_error", "transport_error"}) =>
        /\ signals = <<MsgFetchError, MsgNoData>>
        /\ MsgFetchError # MsgUnexpected
        /\ data = <<>>
        /\ quartiers_info = <<>>
        /\ rendered = <<>>
        /\ ~mapShown

\* A response with an error status whose body, had it been fetched without error,
\* would have loaded records.
C7_Witness ==
    /\ ran /\ fetch = "http_error"
    /\ load_data("ok", raw).df # <<>>
    /\ signals = <<MsgFetchError, MsgNoData>>

\* C8 as stated: whatever the decoded coordinates, the rendering loop ends without
\* an error and the map is shown.
C8_NoErrorPastGeometryBoundary ==
    (ran /\ quartiers_info # <<>>) => (crashed = "none" /\ mapShown)

IsPoint(v) ==
    v.t = "list" /\ Len(v.items) = 2 /\ \A i \in 1..2 : v.items[i].t = "num"
IsRing(v) ==
    v.t = "list" /\ v.items # <<>> /\ \A i \in 1..Len(v.items) : IsPoint(v.items[i])
IsPolygon(v) ==
    v.t = "list" /\ v.items # <<>> /\ \A i \in 1..Len(v.items) : IsRing(v.items[i])
IsMultiPolygon(v) ==
    v.t = "list" /\ v.items # <<>> /\ \A i \in 1..Len(v.items) : IsPolygon(v.items[i])

\* The first ring of the first polygon, each pair turned to [latitude, longitude].
FirstRingLatLon(v) ==
    LET ring == IF IsPolygon(v) THEN v.items[1] ELSE v.items[1].items[1]
    IN  [i \in 1..Len(ring.items) |-> Pt(ring.items[i].items[2].n, ring.items[i].items[1].n)]

\* C9 as stated: the locations of every rendered quartier whose geometry is a
\* well-formed polygon or multipolygon are its first ring, latitude first.
C9_FirstRingLatLon ==
    \A p \in Range(rendered) : \A q \in Entries :
        (q.name = p.quartier /\ (IsPolygon(q.geo_points) \/ IsMultiPolygon(q.geo_points)))
            => p.locations = FirstRingLatLon(q.geo_points)

\* The positions in the records d of those of quartier name that match c.
Matching(d, name, c) ==
    {i \in 1..Len(d) : d[i].nom_quartier = name /\ Eligible(d[i], c)}

\* The position in d of the record with index label x.
PositionOf(d, x) == CHOOSE i \in 1..Len(d) : d[i].idx = x

\* The rank of a quartier name in the order of the keys.
NameRank(name) == CHOOSE i \in 1..Len(NameOrder) : NameOrder[i] = name

\* The line item li shows the record r under the criteria c.
ShowsRecord(li, r, c) ==
    /\ li.nb_pieces = r.nb_pieces
    /\ li.epoque_construction = r.epoque_construction
    /\ li.loyer_m2 = TierRent(r, c.loyer_a_utiliser)
    /\ li.loyer_estime = FloatMul(TierRent(r, c.loyer_a_utiliser), c.surface)
    /\ li.check_icon = Affordable(r, c)

\* The line item a comes before b: fewer rooms, then the lower estimate, then the
\* record that d holds first.
ComesBefore(a, b, d) ==
    \/ a.nb_pieces < b.nb_pieces
    \/ /\ a.nb_pieces = b.nb_pieces
       /\ \/ ~FloatLeq(b.loyer_estime, a.loyer_estime)
          \/ /\ FloatLeq(a.loyer_estime, b.loyer_estime)
             /\ PositionOf(d, a.idx) < PositionOf(d, b.idx)

\* q is the summary that the records d give the quartier q.name under c.
SummaryOf(q, d, c) ==
    LET m == Matching(d, q.name, c)
    IN  /\ m # {}
        /\ q.accessible <=> \E i \in m : Affordable(d[i], c)
        /\ \E i \in m : (\A k \in m : i <= k) /\ q.geo_points = d[i].geo_points
        /\ Len(q.tooltip) = Cardinality(m)
        /\ {q.tooltip[k].idx : k \in 1..Len(q.tooltip)} = {d[i].idx : i \in m}
        /\ \A k \in 1..Len(q.tooltip) :
              ShowsRecord(q.tooltip[k], d[PositionOf(d, q.tooltip[k].idx)], c)
        /\ \A j \in 1..Len(q.tooltip) : \A k \in 1..Len(q.tooltip) :
              j < k => ComesBefore(q.tooltip[j], q.tooltip[k], d)

\* qi is the one sequence of summaries that the records d give under c: a summary
\* for each quartier with a matching record, in the order of the names.
DerivedFrom(qi, d, c) ==
    /\ \A k \in 1..Len(qi) : SummaryOf(qi[k], d, c)
    /\ \A i \in 1..Len(d) :
          Eligible(d[i], c) => \E k \in 1..Len(qi) : qi[k].name = d[i].nom_quartier
    /\ \A j \in 1..Len(qi) : \A k \in 1..Len(qi) :
          j < k => NameRank(qi[j].name) < NameRank(qi[k].name)

\* C10: after any criteria changes the loaded records are those the first response
\* gave, whatever the source would answer to a new request, and the summaries are
\* those of the current criteria alone: the ones a run with these criteria on the
\* first response produces, and the only ones the first records and the current
\* criteria allow.
C10_RederivationIndependentOfHistory ==
    ran =>
        LET original == load_data(fetch, raw)
        IN  /\ cache.hit
            /\ cache.df = original.df
            /\ data = original.df
            /\ quartiers_info = Script(original.df, crit, original.msgs).quartiers_info
            /\ DerivedFrom(quartiers_info, original.df, crit)

\* Budget, surface, rent tier, rental type and era selection have all been changed
\* from their defaults, the output is not empty, and any new request to the source
\* would load other records than the ones in use.
C10_Witness ==
    /\ ran /\ quartiers_info # <<>>
    /\ crit.budget # DefaultBudget
    /\ crit.surface # DefaultSurface
    /\ crit.loyer_a_utiliser # loyer_options[1]
    /\ crit.epoque_selection # Range(epoques_options(data))
    /\ crit.type_loc # type_options(data)[1]
    /\ \A later \in LaterResponses : load_data(later[1], later[2]).df # data

====
